---- MODULE Spec2Model ----
(***************************************************************************)
(* A model of lead_app.py, the Streamlit "Hot Leads Dashboard".            *)
(*                                                                         *)
(* Streamlit executes the whole script top to bottom once per operator     *)
(* interaction (a "run").  What survives between runs is the sqlite table  *)
(* `leads` (store), the two st.cache_data memos (geoCache, fetchCache),    *)
(* st.session_state["prev_df"] (prev_df) and the state of the sidebar and  *)
(* data_editor widgets.  A run is modelled as the sequence of its blocking *)
(* steps; pc is the script's position.                                     *)
(***************************************************************************)
EXTENDS Integers, Sequences, FiniteSets, TLC

(* ------------------------------ bounds -------------------------------- *)
\* script runs in one behaviour
MaxRuns == 4
\* the operator edits only the first MaxEditRow rows of the grid
MaxEditRow == 2
\* records in a drawn raw record set (extraction specification)
MaxRecs == 2
\* leads beyond the cap in the generated large record sets
MaxExtra == 2

(* ------------------------- program constants -------------------------- *)
ZipLen == 5
GeoRetries == 3
FetchRetries == 3
Cap == 50
FreshDays == 30
PhoneBonus == 10
RichBonus == 5

Outcomes == {"Uncalled", "Connected", "Voicemail", "No Answer"}
RadiusOptions == {10, 15, 25}
DefaultRadius == 10
DefaultDays == 14
\* positions of the "New within N days" slider the operator uses
DayChoices == {DefaultDays, 30}

\* the characters str.isdigit() is true of: the decimal digits and the other
\* characters Unicode gives a digit value, of which "sup2", the superscript two
\* (U+00B2), stands here
Digits == {"0", "1", "2", "3", "4", "5", "6", "7", "8", "9", "sup2"}
ZipA == <<"9", "0", "2", "1", "0">>
ZipB == <<"1", "0", "0", "0", "1">>
\* what the operator types into the ZIP box (max_chars=5)
ZipChoices == {<<>>, ZipA, ZipB, <<"9", "0", "2", "1", "a">>}

VARIABLES
    zip_code, radius, new_within,   \* sidebar widgets
    store,                          \* table leads: osm_id -> outcome
    geoCache, fetchCache,           \* st.cache_data memos
    prev_df,                        \* st.session_state["prev_df"]
    editor,                         \* state of the data_editor widget "leads_editor"
    pc, status, trigger, runs,      \* script position, how the last run ended, what started this run
    coords, data, leads, df, edited_df,   \* the script's globals
    msgs,                           \* st.error messages of this run
    geoTries, fetchTries,           \* the passes made by the retry loop in progress (0 outside it)
    existing,                       \* keys read from the table by this run
    writes, committed,              \* INSERT OR REPLACE statements and commit of this run
    store0,                         \* the table at the start of this run
    opEdits,                        \* (id, outcome) pairs the operator has entered in the grid
    lastEdit,                       \* the last of them
    geoAsked, fetchAsked,           \* per memo key: the runs that called the service since the memo last dropped the key
    geoLog, fetchLog                \* the services' answers to this run's calls (kept by the one-run specification)

vars == <<zip_code, radius, new_within, store, geoCache, fetchCache, prev_df, editor,
          pc, status, trigger, runs, coords, data, leads, df, edited_df, msgs,
          geoTries, fetchTries, existing, writes, committed, store0, opEdits, lastEdit,
          geoAsked, fetchAsked, geoLog, fetchLog>>

sessionVars == <<zip_code, radius, new_within>>
editVars == <<opEdits, lastEdit>>
askedVars == <<geoAsked, fetchAsked>>
logVars == <<geoLog, fetchLog>>
ghostVars == <<editVars, askedVars, logVars>>
runVars == <<coords, data, leads, df, edited_df>>

(* ------------------------------ values -------------------------------- *)
Min(a, b) == IF a < b THEN a ELSE b
Max(a, b) == IF a < b THEN b ELSE a

EmptyFn == [x \in {} |-> "Uncalled"]
NoCoords == [ok |-> FALSE, lat |-> 0, lon |-> 0]
NoDoc == [ok |-> FALSE, nonempty |-> FALSE, elements |-> <<>>]
NoDf == [present |-> FALSE, rows |-> <<>>]
Df(rows) == [present |-> TRUE, rows |-> rows]
NoEditor == [present |-> FALSE, rows |-> <<>>, edits |-> EmptyFn]

\* a memo without the entry of key k
Forget(f, k) == [x \in DOMAIN f \ {k} |-> f[x]]
\* the runs counted for key k (two stands for two or more)
Asked(f, k) == IF k \in DOMAIN f THEN f[k] ELSE 0
OneMore(f, k) == (k :> Min(Asked(f, k) + 1, 2)) @@ f

\* a tag holding a date: absent (or empty), unparsable text, or a date `ago` days before today
NoTag == [k |-> "absent", ago |-> 0]
BadTag == [k |-> "bad", ago |-> 0]
DateTag(n) == [k |-> "date", ago |-> n]

\* an element of the answer; oid is its <<type, id>>, the tags are reduced to what
\* the script reads of them
El(oid, name, phone, cphone, email, social, od, sd) ==
    [type |-> oid[1], id |-> oid[2], name |-> name, phone |-> phone, cphone |-> cphone, email |-> email,
     social |-> social, opening_date |-> od, start_date |-> sd]
\* a complete record: name, phone, opening date `ago` days back
Good(oid, ago) == El(oid, TRUE, TRUE, FALSE, FALSE, FALSE, DateTag(ago), NoTag)
Rich(oid, ago) == El(oid, TRUE, TRUE, FALSE, TRUE, FALSE, DateTag(ago), NoTag)

Doc(elements) == [ok |-> TRUE, nonempty |-> TRUE, elements |-> elements]
\* the JSON document {}
EmptyDoc == [ok |-> TRUE, nonempty |-> FALSE, elements |-> <<>>]

(* ----------------------- parse_overpass (102-148) --------------------- *)
\* a Python value that is truthy: a tag that is present and not empty
Truthy(tag) == tag.k # "absent"

\* a variant of Phone that reads the primary field only
PhonePrimaryOnly(el) == el.phone

\* line 110: tags.get("phone") or tags.get("contact:phone")
Phone(el) == el.phone \/ el.cphone

\* lines 113-114 and 124: email or social
Contact(el) == el.email \/ el.social

\* line 115: tags.get("opening_date") or tags.get("start_date")
Opening(el) == IF Truthy(el.opening_date) THEN el.opening_date ELSE el.start_date

\* line 117: dateparser.parse(opening).date() returns (None and text that is no date raise)
Parses(tag) == tag.k = "date"

\* line 120: (date.today() - open_dt).days
DaysSince(tag) == tag.ago

\* lines 121-125
Score(days_since, phone, contact) ==
    Max(0, FreshDays - days_since)
    + (IF phone THEN PhoneBonus ELSE 0)
    + (IF contact THEN RichBonus ELSE 0)

\* line 134: f"{el['type']}/{el['id']}"
OsmId(el) == <<el.type, el.id>>

\* lines 134-147: the row appended for one element
Lead(el) ==
    LET days_since == DaysSince(Opening(el))
    IN  [OSM_ID |-> OsmId(el),
         Days_Since_Opening |-> days_since,
         Score |-> Score(days_since, Phone(el), Contact(el))]

\* one iteration of the loop of lines 105-147: the rows it appends
ParseElement(el) ==
    IF ~el.name THEN <<>>
    ELSE IF ~Phone(el) THEN <<>>
    ELSE IF ~Parses(Opening(el)) THEN <<>>
    ELSE <<Lead(el)>>

RECURSIVE ParseElements(_)
ParseElements(elements) ==
    IF elements = <<>> THEN <<>>
    ELSE ParseElement(Head(elements)) \o ParseElements(Tail(elements))

\* line 103: data.get("elements", []) if data else []
parse_overpass(d) == ParseElements(IF d.ok /\ d.nonempty THEN d.elements ELSE <<>>)

(* ------------------- ranking, dedup and cap (159-167) ----------------- *)
RemoveAt(s, i) == SubSeq(s, 1, i - 1) \o SubSeq(s, i + 1, Len(s))

MaxScore(s) == CHOOSE m \in {s[i].Score : i \in 1..Len(s)} :
                   \A i \in 1..Len(s) : s[i].Score <= m

\* a variant of sort_values whose result is thrown away (no inplace=True)
sort_values_discarded(s) == {s}

\* line 160: df.sort_values("Score", ascending=False).  The default kind is
\* "quicksort", which orders the rows by falling score and promises nothing about
\* rows of equal score: every such order is a possible result.
RECURSIVE sort_values(_)
sort_values(s) ==
    IF s = <<>> THEN {<<>>}
    ELSE LET top == {i \in 1..Len(s) : s[i].Score = MaxScore(s)}
         IN  UNION {{<<s[i]>> \o t : t \in sort_values(RemoveAt(s, i))} : i \in top}

\* a variant of NotExisting without the negation
NotExistingInverted(s, keys) == SelectSeq(s, LAMBDA l : l.OSM_ID \in keys)

\* line 165: df[~df["OSM_ID"].isin(existing.keys())]
NotExisting(s, keys) == SelectSeq(s, LAMBDA l : l.OSM_ID \notin keys)

\* line 165: .head(50)
head(s, n) == SubSeq(s, 1, Min(Len(s), n))

\* line 166: df["Call Outcome"] = "Uncalled"
Row(l, outcome) ==
    [OSM_ID |-> l.OSM_ID, Days_Since_Opening |-> l.Days_Since_Opening,
     Score |-> l.Score, Call_Outcome |-> outcome]
WithOutcome(s, outcome) == [i \in 1..Len(s) |-> Row(s[i], outcome)]

\* a variant of TopLeads that cuts to the cap before it removes the known leads
TopLeadsCapFirst(sorted, keys) ==
    WithOutcome(NotExisting(head(sorted, Cap), keys), "Uncalled")

\* lines 163-167 for one result of the sort
TopLeads(sorted, keys) == WithOutcome(head(NotExisting(sorted, keys), Cap), "Uncalled")

Ids(s) == {s[i].OSM_ID : i \in 1..Len(s)}

(* --------------------- the upstream services' answers ------------------ *)
\* a record the extractor drops (no name)
Junk == El(<<"node", 9>>, FALSE, TRUE, TRUE, TRUE, TRUE, DateTag(3), DateTag(3))
LeadA == Good(<<"node", 1>>, 5)
LeadB == Good(<<"way", 2>>, 10)
LeadC == Rich(<<"node", 3>>, 20)

\* n records with scores rising along the list, the first `ties` of them equal
BigData(n, ties) == [i \in 1..n |-> Good(<<"node", 100 + i>>, FreshDays - Max(i, ties))]

\* the element lists the spatial query service answers with
DataSets ==
    {<<Junk>>, <<LeadA>>, <<LeadB, Junk, LeadA>>, <<LeadC, LeadB, LeadA>>}

\* what the geocoding service does on one call
GeoAnswers == {"location", "nothing", "timeout", "unavailable", "error"}

\* the place of a ZIP code
Locate(zip) ==
    IF zip = ZipA THEN [ok |-> TRUE, lat |-> 34, lon |-> -118]
    ELSE [ok |-> TRUE, lat |-> 40, lon |-> -74]

\* what the spatial query service does on one POST: an HTTP status (0: no
\* response, the request failed) and, with 200, the body (NoDoc: a body that is
\* not JSON)
Docs == {Doc(e) : e \in DataSets} \cup {EmptyDoc}
FetchAnswers ==
    {[code |-> 200, body |-> d] : d \in Docs \cup {NoDoc}}
    \cup {[code |-> c, body |-> NoDoc] : c \in {0, 400, 429, 500}}

(* ------------------------------- Init --------------------------------- *)
\* lines 13-19: lead_calls.db outlives the process; the table is empty when the
\* file is new and holds the rows of earlier sessions otherwise
InitialTables == {EmptyFn, (OsmId(LeadA) :> "Uncalled")}

Init ==
    /\ zip_code = <<>>
    /\ radius = DefaultRadius
    /\ new_within = DefaultDays
    /\ store \in InitialTables
    /\ geoCache = EmptyFn
    /\ fetchCache = EmptyFn
    /\ prev_df = NoDf
    /\ editor = NoEditor
    /\ pc = "idle"
    /\ status = "none"
    /\ trigger = "none"
    /\ runs = 0
    /\ coords = NoCoords
    /\ data = NoDoc
    /\ leads = <<>>
    /\ df = <<>>
    /\ edited_df = <<>>
    /\ msgs = <<>>
    /\ geoTries = 0
    /\ fetchTries = 0
    /\ existing = {}
    /\ writes = <<>>
    /\ committed = FALSE
    /\ store0 = store
    /\ opEdits = {}
    /\ lastEdit = <<>>
    /\ geoAsked = EmptyFn
    /\ fetchAsked = EmptyFn
    /\ geoLog = <<>>
    /\ fetchLog = <<>>

(* ------------------------ the start of a run -------------------------- *)
\* lines 1-29: the script starts over; the table is created if it does not exist,
\* its rows are left alone
Begin(trig) ==
    /\ pc' = "validate"
    /\ status' = "running"
    /\ trigger' = trig
    /\ runs' = runs + 1
    /\ coords' = NoCoords
    /\ data' = NoDoc
    /\ leads' = <<>>
    /\ df' = <<>>
    /\ edited_df' = <<>>
    /\ msgs' = <<>>
    /\ geoTries' = 0
    /\ fetchTries' = 0
    /\ existing' = {}
    /\ writes' = <<>>
    /\ committed' = FALSE
    /\ store0' = store

Idle == pc = "idle" /\ runs < MaxRuns

\* the page is opened (or reloaded): a new session, with empty session state
Load ==
    /\ Idle
    /\ zip_code' = <<>>
    /\ radius' = DefaultRadius
    /\ new_within' = DefaultDays
    /\ prev_df' = NoDf
    /\ editor' = NoEditor
    /\ Begin("load")
    /\ UNCHANGED <<store, geoCache, fetchCache, ghostVars>>

\* line 26
SetZip(z) ==
    /\ Idle /\ status # "none"
    /\ z # zip_code
    /\ zip_code' = z
    /\ Begin("zip")
    /\ UNCHANGED <<radius, new_within, store, geoCache, fetchCache, prev_df, editor, ghostVars>>

\* line 27
SetRadius(r) ==
    /\ Idle /\ status # "none"
    /\ r # radius
    /\ radius' = r
    /\ Begin("radius")
    /\ UNCHANGED <<zip_code, new_within, store, geoCache, fetchCache, prev_df, editor, ghostVars>>

\* line 28
SetDays(d) ==
    /\ Idle /\ status # "none"
    /\ d # new_within
    /\ new_within' = d
    /\ Begin("days")
    /\ UNCHANGED <<zip_code, radius, store, geoCache, fetchCache, prev_df, editor, ghostVars>>

\* lines 170-182: what the grid shows: the rows it was given, with the operator's
\* edits of the Call Outcome column
Edited(rows, edits) ==
    [i \in 1..Len(rows) |->
        IF i \in DOMAIN edits THEN [rows[i] EXCEPT !.Call_Outcome = edits[i]]
        ELSE rows[i]]

Shown == Edited(editor.rows, editor.edits)

\* the operator picks another Call Outcome in row i of the grid
EditOutcome(i, v) ==
    /\ Idle
    /\ editor.present
    /\ i \in 1..Min(Len(editor.rows), MaxEditRow)
    /\ v # Shown[i].Call_Outcome
    /\ editor' = [editor EXCEPT !.edits = (i :> v) @@ editor.edits]
    /\ opEdits' = opEdits \cup {<<editor.rows[i].OSM_ID, v>>}
    /\ lastEdit' = <<editor.rows[i].OSM_ID, v>>
    /\ Begin("edit")
    /\ UNCHANGED <<sessionVars, store, geoCache, fetchCache, prev_df, askedVars, logVars>>

\* lines 198, 223: a button that only re-runs the script
ClickExport ==
    /\ Idle
    /\ status = "done"
    /\ Begin("export")
    /\ UNCHANGED <<sessionVars, store, geoCache, fetchCache, prev_df, editor, ghostVars>>

\* line 233: the button is drawn by a run that reached the end of the script
ClickFetchLatest ==
    /\ Idle
    /\ runs + 1 < MaxRuns
    /\ status = "done"
    /\ Begin("fetch_latest")
    /\ UNCHANGED <<sessionVars, store, geoCache, fetchCache, prev_df, editor, ghostVars>>

(* --------------------------- the end of a run ------------------------- *)
\* st.stop() or an uncaught exception before the grid is drawn: the run ends and
\* the grid's widget state is dropped with it
EndEarly(how, said) ==
    /\ pc' = "idle"
    /\ status' = how
    /\ msgs' = msgs \o said
    /\ editor' = NoEditor

(* ------------------------- validation (31-33) ------------------------- *)
isdigit(z) == z # <<>> /\ \A i \in 1..Len(z) : z[i] \in Digits

\* line 31: zip_code and not zip_code.isdigit() or len(zip_code) != 5
Invalid(z) == (z # <<>> /\ ~isdigit(z)) \/ Len(z) # ZipLen

\* a variant of Validate that reports the error and goes on (no st.stop())
ValidateNoStop ==
    /\ pc = "validate"
    /\ pc' = "geocode"
    /\ msgs' = IF Invalid(zip_code) THEN msgs \o <<"InvalidInput">> ELSE msgs
    /\ UNCHANGED <<sessionVars, store, geoCache, fetchCache, prev_df, editor, status, trigger,
                   runs, runVars, geoTries, fetchTries, existing, writes, committed, store0,
                   ghostVars>>

Validate ==
    /\ pc = "validate"
    /\ IF Invalid(zip_code)
       THEN EndEarly("stopped", <<"InvalidInput">>)
       ELSE /\ pc' = "geocode"
            /\ UNCHANGED <<status, msgs, editor>>
    /\ UNCHANGED <<sessionVars, store, geoCache, fetchCache, prev_df, trigger, runs, runVars,
                   geoTries, fetchTries, existing, writes, committed, store0, ghostVars>>

(* ---------------------- geocode_zip (35-47, 49-58) -------------------- *)
\* a variant of the gate with its test turned round (if coords: instead of
\* if not coords:)
GeocodeGateInverted(value) ==
    IF zip_code # <<>> /\ value.ok
    THEN EndEarly("stopped", <<"GeocodeFailed">>) /\ UNCHANGED coords
    ELSE /\ coords' = value
         /\ pc' = "fetch"
         /\ UNCHANGED <<status, msgs, editor>>

\* lines 49-54: what the script does with geocode_zip's return value
GeocodeGate(value) ==
    IF zip_code # <<>> /\ ~value.ok
    THEN EndEarly("stopped", <<"GeocodeFailed">>) /\ UNCHANGED coords
    ELSE /\ coords' = value
         /\ pc' = "fetch"
         /\ UNCHANGED <<status, msgs, editor>>

\* the memo holds a value for this ZIP code: no call is made
GeocodeCached ==
    /\ pc = "geocode"
    /\ zip_code \in DOMAIN geoCache
    /\ GeocodeGate(geoCache[zip_code])
    /\ UNCHANGED <<sessionVars, store, geoCache, fetchCache, prev_df, trigger, runs,
                   data, leads, df, edited_df,
                   geoTries, fetchTries, existing, writes, committed, store0, ghostVars>>

\* line 35: ttl=86400.  The memo drops an entry older than a day when it is looked
\* up
GeocodeExpire ==
    /\ pc = "geocode"
    /\ zip_code \in DOMAIN geoCache
    /\ geoCache' = Forget(geoCache, zip_code)
    /\ geoAsked' = Forget(geoAsked, zip_code)
    /\ UNCHANGED <<sessionVars, store, fetchCache, prev_df, editor, pc, status, trigger, runs,
                   runVars, msgs, geoTries, fetchTries, existing, writes, committed, store0,
                   editVars, fetchAsked, logVars>>

\* one pass of the loop of lines 39-46, the service answering `ans`
GeocodeCall(ans) ==
    /\ pc = "geocode"
    /\ zip_code \notin DOMAIN geoCache
    /\ geoTries < GeoRetries
    /\ geoAsked' = IF geoTries = 0 THEN OneMore(geoAsked, zip_code) ELSE geoAsked
    /\ geoTries' = IF ans \in {"timeout", "unavailable"} /\ geoTries + 1 < GeoRetries
                   THEN geoTries + 1 ELSE 0
    /\ CASE ans = "location" ->
              /\ geoCache' = (zip_code :> Locate(zip_code)) @@ geoCache
              /\ GeocodeGate(Locate(zip_code))
         [] ans = "nothing" ->
              /\ geoCache' = (zip_code :> NoCoords) @@ geoCache
              /\ GeocodeGate(NoCoords)
         [] ans \in {"timeout", "unavailable"} ->
              IF geoTries + 1 < GeoRetries
              THEN UNCHANGED <<geoCache, pc, status, msgs, editor, coords>>
              ELSE /\ geoCache' = (zip_code :> NoCoords) @@ geoCache
                   /\ GeocodeGate(NoCoords)
         [] OTHER ->
              \* another exception of the geocoder is not caught
              /\ EndEarly("crashed", <<>>)
              /\ UNCHANGED <<geoCache, coords>>
    /\ UNCHANGED <<sessionVars, store, fetchCache, prev_df, trigger, runs,
                   data, leads, df, edited_df,
                   fetchTries, existing, writes, committed, store0, editVars, fetchAsked>>

GeocodeTry(ans) == GeocodeCall(ans) /\ UNCHANGED logVars

(* -------------------- fetch_overpass (60-100, 150-153) ---------------- *)
\* line 61: the arguments, the key of the memo
FetchKey == <<coords.lat, coords.lon, radius, new_within>>

\* a memo entry: the return value and the st.error recorded with it
Memo(value, said) == [value |-> value, said |-> said]

\* lines 151-153: what the script does with fetch_overpass's return value
FetchGate(entry) ==
    /\ data' = entry.value
    /\ IF ~(entry.value.ok /\ entry.value.nonempty)
       THEN EndEarly("stopped", entry.said)
       ELSE /\ pc' = "parse"
            /\ msgs' = msgs \o entry.said
            /\ UNCHANGED <<status, editor>>

\* the memo holds a value for these arguments: no request is made
FetchCached ==
    /\ pc = "fetch"
    /\ FetchKey \in DOMAIN fetchCache
    /\ FetchGate(fetchCache[FetchKey])
    /\ UNCHANGED <<sessionVars, store, geoCache, fetchCache, prev_df, trigger, runs,
                   coords, leads, df, edited_df,
                   geoTries, fetchTries, existing, writes, committed, store0, ghostVars>>

\* line 60: ttl=86400
FetchExpire ==
    /\ pc = "fetch"
    /\ FetchKey \in DOMAIN fetchCache
    /\ fetchCache' = Forget(fetchCache, FetchKey)
    /\ fetchAsked' = Forget(fetchAsked, FetchKey)
    /\ UNCHANGED <<sessionVars, store, geoCache, prev_df, editor, pc, status, trigger, runs,
                   runVars, msgs, geoTries, fetchTries, existing, writes, committed, store0,
                   editVars, geoAsked, logVars>>

\* fetch_overpass returns: the value is memoised
FetchReturn(value, said) ==
    /\ fetchCache' = (FetchKey :> Memo(value, said)) @@ fetchCache
    /\ FetchGate(Memo(value, said))

\* a variant of FetchAgain that gives up at the first failure (lines 99-100 moved
\* into the loop)
FetchGiveUp == fetchTries' = 0 /\ FetchReturn(NoDoc, <<"RateLimited">>)

\* lines 83-84, 90-91, 96, 98: sleep and go round the loop again; after the last
\* pass, lines 99-100
FetchAgain ==
    IF fetchTries + 1 < FetchRetries
    THEN fetchTries' = fetchTries + 1 /\ UNCHANGED <<fetchCache, pc, status, msgs, editor, data>>
    ELSE fetchTries' = 0 /\ FetchReturn(NoDoc, <<"RateLimited">>)

\* one pass of the loop of lines 79-98, the service answering `ans`
FetchCall(ans) ==
    /\ pc = "fetch"
    /\ FetchKey \notin DOMAIN fetchCache
    /\ fetchTries < FetchRetries
    /\ fetchAsked' = IF fetchTries = 0 THEN OneMore(fetchAsked, FetchKey) ELSE fetchAsked
    /\ CASE ans.code = 0 -> FetchAgain
         [] ans.code = 429 -> FetchAgain
         [] ans.code = 400 -> fetchTries' = 0 /\ FetchReturn(NoDoc, <<"NoData">>)
         [] ans.code = 200 /\ ans.body.ok -> fetchTries' = 0 /\ FetchReturn(ans.body, <<>>)
         [] ans.code = 200 /\ ~ans.body.ok ->
              \* resp.json() raises: a RequestException where requests
              \* derives its JSONDecodeError from it, a plain ValueError, which
              \* nothing catches, elsewhere
              \/ FetchAgain
              \/ /\ fetchTries' = 0
                 /\ EndEarly("crashed", <<>>)
                 /\ UNCHANGED <<fetchCache, data>>
         [] OTHER -> FetchAgain
    /\ UNCHANGED <<sessionVars, store, geoCache, prev_df, trigger, runs,
                   coords, leads, df, edited_df,
                   geoTries, existing, writes, committed, store0, editVars, geoAsked>>

FetchTry(ans) == FetchCall(ans) /\ UNCHANGED logVars

(* ------------------------- extraction (154-157) ----------------------- *)
Parse ==
    /\ pc = "parse"
    /\ leads' = parse_overpass(data)
    /\ IF leads' = <<>>
       THEN EndEarly("stopped", <<"NoData">>)
       ELSE /\ pc' = "rank"
            /\ UNCHANGED <<status, msgs, editor>>
    /\ UNCHANGED <<sessionVars, store, geoCache, fetchCache, prev_df, trigger, runs,
                   coords, data, df, edited_df,
                   geoTries, fetchTries, existing, writes, committed, store0, ghostVars>>

(* ------------------ ranking, dedup and cap (159-167) ------------------ *)
Rank ==
    /\ pc = "rank"
    /\ existing' = DOMAIN store
    /\ \E sorted \in sort_values(leads) : df' = TopLeads(sorted, DOMAIN store)
    /\ pc' = "editor"
    /\ UNCHANGED <<sessionVars, store, geoCache, fetchCache, prev_df, editor, status, trigger,
                   runs, coords, data, leads, edited_df, msgs,
                   geoTries, fetchTries, writes, committed, store0, ghostVars>>

(* --------------------------- the grid (169-182) ----------------------- *)
\* st.data_editor: the widget keeps the operator's edits while it is given the same
\* rows, and starts afresh when it is given other rows
Editor ==
    /\ pc = "editor"
    /\ editor' = IF editor.present /\ editor.rows = df
                 THEN editor
                 ELSE [present |-> TRUE, rows |-> df, edits |-> EmptyFn]
    /\ edited_df' = Edited(editor'.rows, editor'.edits)
    /\ pc' = "reconcile"
    /\ UNCHANGED <<sessionVars, store, geoCache, fetchCache, prev_df, status, trigger,
                   runs, coords, data, leads, df, msgs,
                   geoTries, fetchTries, existing, writes, committed, store0, ghostVars>>

(* ------------------------ reconciliation (184-195) -------------------- *)
\* lines 185-186
Previous == IF prev_df.present THEN prev_df.rows ELSE edited_df

\* line 187: the rows of edited_df whose Call Outcome differs from the row of
\* prev_df at the same position
Changed(cur, prev) ==
    LET at == {i \in 1..Len(cur) : cur[i].Call_Outcome # prev[i].Call_Outcome}
        RECURSIVE pick(_)
        pick(i) == IF i > Len(cur) THEN <<>>
                   ELSE (IF i \in at THEN <<cur[i]>> ELSE <<>>) \o pick(i + 1)
    IN  pick(1)

\* lines 189-192, one statement
Upsert(table, row) == (row.OSM_ID :> row.Call_Outcome) @@ table

\* lines 188-192
RECURSIVE UpsertAll(_, _)
UpsertAll(table, rows) ==
    IF rows = <<>> THEN table
    ELSE UpsertAll(Upsert(table, Head(rows)), Tail(rows))

Reconcile ==
    /\ pc = "reconcile"
    /\ IF Len(edited_df) # Len(Previous)
       THEN \* line 187: comparing two Series of different length raises ValueError
            /\ pc' = "idle"
            /\ status' = "crashed"
            /\ UNCHANGED <<store, writes, committed, prev_df>>
       ELSE LET changed == Changed(edited_df, Previous)
            IN  /\ store' = UpsertAll(store, changed)
                /\ writes' = [i \in 1..Len(changed) |->
                                 <<changed[i].OSM_ID, changed[i].Call_Outcome>>]
                /\ committed' = (changed # <<>>)
                /\ prev_df' = Df(edited_df)
                /\ pc' = "tail"
                /\ UNCHANGED status
    /\ UNCHANGED <<sessionVars, geoCache, fetchCache, editor, trigger, runs, runVars, msgs,
                   geoTries, fetchTries, existing, store0, ghostVars>>

(* ------------------ the rest of the script (197-236) ------------------ *)
Tail_ ==
    /\ pc = "tail"
    /\ IF trigger = "fetch_latest"
       THEN \* lines 233-236
            /\ geoCache' = EmptyFn
            /\ fetchCache' = EmptyFn
            /\ geoAsked' = EmptyFn
            /\ fetchAsked' = EmptyFn
            /\ Begin("rerun")
       ELSE /\ pc' = "idle"
            /\ status' = "done"
            /\ UNCHANGED <<geoCache, fetchCache, trigger, runs, runVars, msgs,
                           geoTries, fetchTries, existing, writes, committed, store0,
                           askedVars>>
    /\ UNCHANGED <<sessionVars, store, prev_df, editor, editVars, logVars>>

(* ------------------------------ the program --------------------------- *)
Next ==
    \/ Load
    \/ \E z \in ZipChoices : SetZip(z)
    \/ \E r \in RadiusOptions : SetRadius(r)
    \/ \E d \in DayChoices : SetDays(d)
    \/ \E i \in 1..MaxEditRow, v \in Outcomes : EditOutcome(i, v)
    \/ ClickExport
    \/ ClickFetchLatest
    \/ Validate
    \/ GeocodeCached
    \/ GeocodeExpire
    \/ \E ans \in GeoAnswers : GeocodeTry(ans)
    \/ FetchCached
    \/ FetchExpire
    \/ \E ans \in FetchAnswers : FetchTry(ans)
    \/ Parse
    \/ Rank
    \/ Editor
    \/ Reconcile
    \/ Tail_

Spec == Init /\ [][Next]_vars

(* -------- the extraction and ranking steps on drawn record sets ------- *)
\* records that differ in what lines 105-125 look at
ElementKinds ==
    {Good(<<"node", 1>>, 5),
     Good(<<"way", 2>>, 5),
     Rich(<<"node", 3>>, 0),
     \* phone, date and contact in the alternate fields only
     El(<<"way", 4>>, TRUE, FALSE, TRUE, FALSE, TRUE, NoTag, DateTag(0)),
     El(<<"node", 5>>, TRUE, TRUE, TRUE, TRUE, FALSE, DateTag(FreshDays), DateTag(5)),
     Good(<<"node", 6>>, 45),
     \* opens in six days
     Good(<<"node", 7>>, -6),
     \* no name; no phone; no date; a date that is none
     El(<<"node", 8>>, FALSE, TRUE, TRUE, TRUE, TRUE, DateTag(5), DateTag(5)),
     El(<<"node", 9>>, TRUE, FALSE, FALSE, TRUE, TRUE, DateTag(5), NoTag),
     El(<<"way", 10>>, TRUE, TRUE, FALSE, FALSE, FALSE, NoTag, NoTag),
     El(<<"way", 11>>, TRUE, TRUE, FALSE, FALSE, FALSE, NoTag, BadTag),
     El(<<"node", 12>>, TRUE, TRUE, FALSE, FALSE, FALSE, BadTag, DateTag(5))}

ExtractDocs ==
    {Doc(e) : e \in UNION {[1..n -> ElementKinds] : n \in 0..MaxRecs}}
    \cup {Doc(BigData(n, 3)) : n \in (Cap - 1)..(Cap + MaxExtra)}

\* tables holding some of the ids of a record set: any of its first two and last
\* two records, or all of them
ExtractTables(e) ==
    LET n == Len(e)
        ends == {i \in 1..n : i <= 2 \/ i > n - 2}
        table(S) == [k \in {OsmId(e[i]) : i \in S} |->
                        IF k = OsmId(e[1]) THEN "Uncalled" ELSE "Connected"]
    IN  {table(S) : S \in SUBSET ends} \cup {table(1..n)}

InitExtract ==
    /\ zip_code = ZipA
    /\ radius = DefaultRadius
    /\ new_within = DefaultDays
    /\ data \in ExtractDocs
    /\ store \in ExtractTables(data.elements)
    /\ geoCache = EmptyFn
    /\ fetchCache = EmptyFn
    /\ prev_df = NoDf
    /\ editor = NoEditor
    /\ pc = "parse"
    /\ status = "running"
    /\ trigger = "zip"
    /\ runs = 1
    /\ coords = Locate(ZipA)
    /\ leads = <<>>
    /\ df = <<>>
    /\ edited_df = <<>>
    /\ msgs = <<>>
    /\ geoTries = 0
    /\ fetchTries = 0
    /\ existing = {}
    /\ writes = <<>>
    /\ committed = FALSE
    /\ store0 = store
    /\ opEdits = {}
    /\ lastEdit = <<>>
    /\ geoAsked = EmptyFn
    /\ fetchAsked = EmptyFn
    /\ geoLog = <<>>
    /\ fetchLog = <<>>

NextExtract == Parse \/ Rank

SpecExtract == InitExtract /\ [][NextExtract]_vars

(* ------------- one run, with the services' answers on record ---------- *)
\* what may stand in the ZIP box when a run starts: nothing, too few characters,
\* five digits, five characters of which one is a letter, a blank or the
\* superscript two
ZipInputs ==
    {<<>>, <<"9">>, <<"9", "0", "2", "1">>, ZipA, ZipB,
     <<"9", "0", "2", "1", "a">>, <<"9", "0", " ", "1", "0">>,
     <<"9", "0", "2", "1", "sup2">>}

\* what the geocode memo may hold for a ZIP code when a run starts: nothing, or
\* what an earlier run's call returned (only a string that passes line 31 is ever
\* looked up)
GeoMemos(z) ==
    {EmptyFn} \cup (IF Invalid(z) THEN {} ELSE {z :> Locate(z), z :> NoCoords})

\* a run starts on a ZIP box just changed
InitRun ==
    /\ zip_code \in ZipInputs
    /\ radius = DefaultRadius
    /\ new_within = DefaultDays
    /\ store \in InitialTables
    /\ geoCache \in GeoMemos(zip_code)
    /\ fetchCache = EmptyFn
    /\ prev_df = NoDf
    /\ editor = NoEditor
    /\ pc = "validate"
    /\ status = "running"
    /\ trigger = "zip"
    /\ runs = 1
    /\ coords = NoCoords
    /\ data = NoDoc
    /\ leads = <<>>
    /\ df = <<>>
    /\ edited_df = <<>>
    /\ msgs = <<>>
    /\ geoTries = 0
    /\ fetchTries = 0
    /\ existing = {}
    /\ writes = <<>>
    /\ committed = FALSE
    /\ store0 = store
    /\ opEdits = {}
    /\ lastEdit = <<>>
    /\ geoAsked = [k \in DOMAIN geoCache |-> 1]
    /\ fetchAsked = EmptyFn
    /\ geoLog = <<>>
    /\ fetchLog = <<>>

\* line 41, the answer put on record
GeocodeSeen(ans) ==
    /\ GeocodeCall(ans)
    /\ geoLog' = Append(geoLog, ans)
    /\ UNCHANGED fetchLog

\* line 81, the answer put on record
FetchSeen(ans) ==
    /\ FetchCall(ans)
    /\ fetchLog' = Append(fetchLog, ans)
    /\ UNCHANGED geoLog

NextRun ==
    \/ Validate
    \/ GeocodeCached
    \/ \E ans \in GeoAnswers : GeocodeSeen(ans)
    \/ \E ans \in FetchAnswers : FetchSeen(ans)
    \/ Parse
    \/ Rank
    \/ Editor
    \/ Reconcile
    \/ Tail_

SpecRun == InitRun /\ [][NextRun]_vars

(* ----------- events that arrive while a run is in progress ------------ *)
\* Streamlit runs the script of a session in one thread.  An event that arrives
\* while a run is in progress does not start a second run beside it: the run in
\* progress is stopped when it next calls an st function, its widget state is
\* kept, and only then does the run for the event start.  The positions whose next
\* statement is such a call: the page header and sidebar (21-29), the two cached
\* calls with their spinners (51, 58 and 151), the grid (169-170), and the
\* buttons after the reconciliation (198).  Lines 184-195 call none.
YieldPointsWithReport == {"validate", "geocode", "fetch", "editor", "snapshot", "tail"}
YieldPoints == {"validate", "geocode", "fetch", "editor", "tail"}

Stoppable ==
    /\ pc \in YieldPoints
    /\ geoTries = 0 /\ fetchTries = 0
    /\ runs < MaxRuns

\* the ZIP box is changed while a run is in progress
StopForZip(z) ==
    /\ Stoppable
    /\ z # zip_code
    /\ zip_code' = z
    /\ Begin("zip_midrun")
    /\ UNCHANGED <<radius, new_within, store, geoCache, fetchCache, prev_df, editor, ghostVars>>

\* the operator picks a Call Outcome in the grid on screen while a run is in
\* progress
StopForEdit(i, v) ==
    /\ Stoppable
    /\ editor.present
    /\ i \in 1..Min(Len(editor.rows), MaxEditRow)
    /\ v # Shown[i].Call_Outcome
    /\ editor' = [editor EXCEPT !.edits = (i :> v) @@ editor.edits]
    /\ opEdits' = opEdits \cup {<<editor.rows[i].OSM_ID, v>>}
    /\ lastEdit' = <<editor.rows[i].OSM_ID, v>>
    /\ Begin("edit_midrun")
    /\ UNCHANGED <<sessionVars, store, geoCache, fetchCache, prev_df, askedVars, logVars>>

\* lines 185-194 and line 195 as two steps
ReconcileUpsert ==
    /\ pc = "reconcile"
    /\ IF Len(edited_df) # Len(Previous)
       THEN /\ pc' = "idle"
            /\ status' = "crashed"
            /\ UNCHANGED <<store, writes, committed>>
       ELSE LET changed == Changed(edited_df, Previous)
            IN  /\ store' = UpsertAll(store, changed)
                /\ writes' = [i \in 1..Len(changed) |->
                                 <<changed[i].OSM_ID, changed[i].Call_Outcome>>]
                /\ committed' = (changed # <<>>)
                /\ pc' = "snapshot"
                /\ UNCHANGED status
    /\ UNCHANGED <<sessionVars, geoCache, fetchCache, prev_df, editor, trigger, runs, runVars,
                   msgs, geoTries, fetchTries, existing, store0, ghostVars>>

ReconcileSnapshot ==
    /\ pc = "snapshot"
    /\ prev_df' = Df(edited_df)
    /\ pc' = "tail"
    /\ UNCHANGED <<sessionVars, store, geoCache, fetchCache, editor, status, trigger, runs,
                   runVars, msgs, geoTries, fetchTries, existing, writes, committed, store0,
                   ghostVars>>

NextLive ==
    \/ Load
    \/ \E z \in ZipChoices : SetZip(z)
    \/ \E i \in 1..MaxEditRow, v \in Outcomes : EditOutcome(i, v)
    \/ ClickExport
    \/ ClickFetchLatest
    \/ \E z \in ZipChoices : StopForZip(z)
    \/ \E i \in 1..MaxEditRow, v \in Outcomes : StopForEdit(i, v)
    \/ Validate
    \/ GeocodeCached
    \/ \E ans \in GeoAnswers : GeocodeTry(ans)
    \/ FetchCached
    \/ \E ans \in FetchAnswers : FetchTry(ans)
    \/ Parse
    \/ Rank
    \/ Editor
    \/ ReconcileUpsert
    \/ ReconcileSnapshot
    \/ Tail_

SpecLive == Init /\ [][NextLive]_vars

(* ============================== the claims ============================ *)
Failures == {"InvalidInput", "GeocodeFailed", "NoData", "RateLimited"}
Said == {msgs[i] : i \in 1..Len(msgs)}

\* C1: deduplication is monotonic.  The table never loses a key, and the rows a run
\* shows hold no id that was a key of the table when the run began, whatever the
\* outcome stored under it and whatever the lead's score.
C1_DedupMonotonic ==
    /\ [](Ids(df) \cap DOMAIN store0 = {})
    /\ [][DOMAIN store \subseteq DOMAIN store']_vars

\* a run has built its rows from an answer that holds a lead stored as 'Uncalled',
\* the best-scored of the answer
C1_Witness ==
    /\ pc = "editor"
    /\ df # <<>>
    /\ \E i \in 1..Len(leads) :
          /\ leads[i].OSM_ID \in DOMAIN store0
          /\ store0[leads[i].OSM_ID] = "Uncalled"
          /\ \A j \in 1..Len(leads) : leads[j].Score <= leads[i].Score

\* C2: every (id, outcome) a run writes to the table is a change the operator made
\* in the grid to that lead; what was only displayed is never written.
C2_WritesAreOperatorChanges ==
    \A i \in 1..Len(writes) : writes[i] \in opEdits

\* the snapshot the grid returned to this run holds the operator's last edit
EditInGrid ==
    \E i \in 1..Len(edited_df) :
        /\ edited_df[i].OSM_ID = lastEdit[1]
        /\ edited_df[i].Call_Outcome = lastEdit[2]

\* C3: an edit is applied exactly once.  The reconciliation of a run started by an
\* edit of one row, given a snapshot with that edit, writes that one record and
\* advances the previous snapshot; the reconciliation of a run started by anything
\* else (no further edit) writes nothing.
C3_EditAppliedOnce ==
    pc = "tail" =>
        /\ (trigger = "edit" /\ EditInGrid) =>
               (writes = <<lastEdit>> /\ prev_df = Df(edited_df))
        /\ trigger # "edit" => writes = <<>>

\* C4: a run that ends in InvalidInput, GeocodeFailed, NoData or RateLimited has
\* executed no INSERT OR REPLACE and no commit of one, and the table is what it was
\* when the run began.
C4_FailedRunLeavesStore ==
    (pc = "idle" /\ Said \cap Failures # {}) =>
        (store = store0 /\ writes = <<>> /\ ~committed)

\* three answers 429 in a row ended a run of a session that had shown leads, over a
\* table that holds records
C4_Witness ==
    /\ pc = "idle"
    /\ status = "stopped"
    /\ msgs = <<"RateLimited">>
    /\ prev_df.present
    /\ DOMAIN store # {}

\* C5: when a run started by an edit, and given a snapshot with that edit, has ended,
\* and so before the next run reads the table, the edited lead is in the table with
\* the outcome entered.
C5_EditUpsertedBeforeNextRun ==
    (pc = "idle" /\ trigger = "edit" /\ EditInGrid) =>
        (lastEdit[1] \in DOMAIN store /\ store[lastEdit[1]] = lastEdit[2])

\* C6: the cap is applied after ranking and deduplication: the rows shown are
\* min(50, number of extracted leads not in the table) many, none is in the table,
\* and no extracted lead left out outscores a row shown.
C6_CapAfterDedup ==
    pc = "editor" =>
        LET fresh == {i \in 1..Len(leads) : leads[i].OSM_ID \notin DOMAIN store}
        IN  /\ Len(df) = Min(Cap, Cardinality(fresh))
            /\ Len(df) <= Cap
            /\ \A j \in 1..Len(df) : \E i \in fresh : df[j].OSM_ID = leads[i].OSM_ID
            /\ \A i \in fresh :
                  \/ \E j \in 1..Len(df) : df[j].OSM_ID = leads[i].OSM_ID
                  \/ \A j \in 1..Len(df) : df[j].Score >= leads[i].Score

\* more than 50 leads were extracted, some of them are in the table, and the cap cut
\* the rest
C6_Witness ==
    /\ pc = "editor"
    /\ Len(df) = Cap
    /\ Ids(leads) \cap DOMAIN store # {}
    /\ Cardinality(Ids(leads) \ DOMAIN store) > Cap

\* the place of a row's lead in the extractor's output
Place(row) == CHOOSE k \in 1..Len(leads) :
                  /\ leads[k].OSM_ID = row.OSM_ID
                  /\ \A m \in 1..(k - 1) : leads[m].OSM_ID # row.OSM_ID

C8_ScoreRange ==
    \A i \in 1..Len(leads) :
        /\ leads[i].Days_Since_Opening >= 0
        /\ leads[i].Score >= 10
        /\ leads[i].Score <= 45

\* a record with a name, a phone in either field, and a date that parses in the
\* date field the extractor reads (the opening date, or the start date when there
\* is no opening date)
Qualifies(el) ==
    /\ el.name
    /\ el.phone \/ el.cphone
    /\ IF el.opening_date.k # "absent"
       THEN el.opening_date.k = "date"
       ELSE el.start_date.k = "date"

\* C9: the extractor emits a lead for exactly the records that qualify, in the
\* order of the records.
C9_ExtractIff ==
    pc # "parse" =>
        LET kept == SelectSeq(data.elements, Qualifies)
        IN  /\ Len(leads) = Len(kept)
            /\ \A i \in 1..Len(leads) : leads[i].OSM_ID = <<kept[i].type, kept[i].id>>

\* records were dropped and records were kept, one of the kept for its alternate
\* phone field and its start date
C9_Witness ==
    /\ pc = "rank"
    /\ Len(leads) < Len(data.elements)
    /\ \E i \in 1..Len(data.elements) :
          LET el == data.elements[i]
          IN  /\ ~el.phone
              /\ el.opening_date.k = "absent"
              /\ <<el.type, el.id>> \in Ids(leads)

\* C10: a run that extracted leads and found all of them in the table ends with
\* NoData reported.
C10_AllKnownIsNoData ==
    (pc = "idle" /\ leads # <<>> /\ Ids(leads) \subseteq DOMAIN store0) =>
        "NoData" \in Said


\* the strings of exactly five decimal digits
AsciiDigits == {"0", "1", "2", "3", "4", "5", "6", "7", "8", "9"}
FiveDigits(z) == Len(z) = 5 /\ \A i \in 1..Len(z) : z[i] \in AsciiDigits

\* C11: a run on a ZIP box that does not hold exactly five digits reports
\* InvalidInput and ends there, with no call of the geocoder, no query and the table
\* neither read nor written; a run on exactly five digits never reports InvalidInput.
C11_ZipValidation ==
    /\ (~FiveDigits(zip_code) /\ pc # "validate") =>
           /\ pc = "idle"
           /\ msgs = <<"InvalidInput">>
           /\ geoLog = <<>> /\ fetchLog = <<>>
           /\ existing = {} /\ writes = <<>> /\ store = store0
    /\ FiveDigits(zip_code) => "InvalidInput" \notin Said

\* C12: a query is issued only in a run in which geocode_zip has returned
\* coordinates, and with them; a run in which geocode_zip returned no coordinates
\* (no match, or three timeouts, or the like memoised) reports GeocodeFailed and
\* ends with no query issued.
C12_QueryAfterGeocode ==
    /\ fetchLog # <<>> =>
           /\ coords.ok
           /\ zip_code \in DOMAIN geoCache /\ coords = geoCache[zip_code]
    /\ (pc \notin {"validate", "geocode"} /\ zip_code \in DOMAIN geoCache
            /\ ~geoCache[zip_code].ok) =>
           /\ pc = "idle" /\ status = "stopped"
           /\ msgs = <<"GeocodeFailed">>
           /\ fetchLog = <<>> /\ data = NoDoc

\* three timeouts, GeocodeFailed reported
C12_Witness ==
    /\ pc = "idle" /\ msgs = <<"GeocodeFailed">>
    /\ Len(geoLog) = GeoRetries
    /\ fetchLog = <<>>

\* C13: whatever the service answers to the POSTs of one fetch, the run that made
\* them either goes on with the parsed result and no message, or stops with
\* NoData alone, or stops with RateLimited alone; it never ends on an exception and
\* never stops without a message.
C13_ThreeWayOutcome ==
    (fetchLog # <<>> /\ pc # "fetch") =>
        \/ /\ status \in {"running", "done"}
           /\ msgs = <<>>
           /\ data.ok /\ data.nonempty
        \/ status = "stopped" /\ msgs = <<"NoData">>
        \/ status = "stopped" /\ msgs = <<"RateLimited">> /\ data = NoDoc

\* C14: a run reports RateLimited only after a fetch whose attempts were all
\* answered with HTTP 429, retries exhausted.
C14_RateLimitedOnly429 ==
    "RateLimited" \in Said =>
        /\ Len(fetchLog) = FetchRetries
        /\ \A i \in 1..Len(fetchLog) : fetchLog[i].code = 429

\* C18: one fetch makes at most three POSTs and then ends; after an answer of 429
\* or a failed request the next POST follows while fewer than three were made; an
\* answer of 400 is followed by no POST and ends the fetch with NoData.
C18_BoundedRetries ==
    /\ Len(fetchLog) <= FetchRetries
    /\ Len(fetchLog) = FetchRetries => pc # "fetch"
    /\ \A i \in 1..Len(fetchLog) :
           /\ (i < Len(fetchLog) => fetchLog[i].code # 400)
           /\ (fetchLog[i].code \in {429, 0} /\ i < FetchRetries) =>
                  (i < Len(fetchLog) \/ pc = "fetch")
           /\ (fetchLog[i].code = 400) =>
                  /\ pc = "idle" /\ status = "stopped"
                  /\ msgs = <<"NoData">> /\ data = NoDoc

\* 429, then a failed request, then 400
C18_Witness ==
    /\ Len(fetchLog) = FetchRetries
    /\ fetchLog[1].code = 429 /\ fetchLog[2].code = 0 /\ fetchLog[3].code = 400
    /\ msgs = <<"NoData">>

\* C19: one resolution calls the geocoder at most three times and then ends; only a
\* timeout or an unavailable service is followed by another call; no match, any
\* other failure and a third timeout in a row all end the resolution with NotFound
\* returned: the run reports GeocodeFailed and no exception is raised.
C19_GeocodeNotFound ==
    /\ Len(geoLog) <= GeoRetries
    /\ \A i \in 1..Len(geoLog) - 1 : geoLog[i] \in {"timeout", "unavailable"}
    /\ (geoLog # <<>> /\ geoLog[Len(geoLog)] \notin {"timeout", "unavailable"}) =>
           pc # "geocode"
    /\ (geoLog # <<>> /\ pc # "geocode" /\ geoLog[Len(geoLog)] # "location") =>
           /\ pc = "idle" /\ status = "stopped"
           /\ msgs = <<"GeocodeFailed">>
           /\ ~coords.ok

\* C15: a run started by the Fetch Latest button that has obtained its leads does
\* not end before it has emptied both memos and started the script again; the run
\* so started begins with both memos empty, calls the geocoder itself and, once it
\* has coordinates, issues the query itself.
C15_FetchLatestInvalidates ==
    /\ (pc = "idle" /\ leads # <<>>) => trigger # "fetch_latest"
    /\ (trigger = "rerun" /\ pc = "validate") =>
           (geoCache = EmptyFn /\ fetchCache = EmptyFn)
    /\ (trigger = "rerun" /\ pc \notin {"validate", "geocode"}) =>
           zip_code \in DOMAIN geoAsked
    /\ (trigger = "rerun" /\ pc \notin {"validate", "geocode", "fetch"} /\ coords.ok) =>
           FetchKey \in DOMAIN fetchAsked

\* C17: whenever a run compares the grid with the previous snapshot, the two have
\* the same number of rows and the same lead id in every row.
C17_SnapshotsAligned ==
    pc = "reconcile" =>
        /\ Len(Previous) = Len(edited_df)
        /\ \A i \in 1..Len(edited_df) : Previous[i].OSM_ID = edited_df[i].OSM_ID

\* C20: while a memo keeps a key (no expiry, no Fetch Latest), the service is
\* called for that key in one run at most; a run that finds its key memoised goes
\* on with the memoised value, coordinates or document, or stops on the memoised
\* failure with its message.
C20_OneCallPerKey ==
    /\ \A k \in DOMAIN geoAsked : geoAsked[k] <= 1
    /\ \A k \in DOMAIN fetchAsked : fetchAsked[k] <= 1
    /\ (pc \notin {"validate", "geocode"} /\ zip_code \in DOMAIN geoCache) =>
           IF geoCache[zip_code].ok
           THEN coords = geoCache[zip_code]
           ELSE pc = "idle" /\ msgs = <<"GeocodeFailed">>
    /\ (pc \notin {"validate", "geocode", "fetch"} /\ coords.ok
            /\ FetchKey \in DOMAIN fetchCache) =>
           /\ data = fetchCache[FetchKey].value
           /\ fetchCache[FetchKey].said # <<>> =>
                  (pc = "idle" /\ msgs = fetchCache[FetchKey].said)

====
